---- MODULE Spec2Model ----
(***************************************************************************)
(* The leveraged-token RSI alert bot of src/index.js as a state machine.   *)
(*                                                                         *)
(* State: the per-symbol map tokenStates, the counters of botStats, the    *)
(* flag isMonitoringActive, the pending timers, and one record per running *)
(* invocation of monitorTokens (its position and the locals of the         *)
(* analyzeAndAlert / sendTelegramAlert calls it is awaiting).              *)
(*                                                                         *)
(* An action is one run-to-completion segment of the JavaScript event      *)
(* loop: from the resolution of an awaited network call or timer to the    *)
(* next await.  A sleep that is followed by nothing but the next request   *)
(* is folded into the action that issues that request, and the getMe probe *)
(* of a delivery attempt into the sendMessage that follows it: nothing is  *)
(* read or written between the two.                                        *)
(*                                                                         *)
(* Time is Date.now() in milliseconds.  The clock advances in steps of     *)
(* TickMs, one millisecond more than the cooldown: two moments are either  *)
(* within the cooldown of each other (no step between them) or more than   *)
(* the cooldown apart.  The exact boundary is covered where the decision   *)
(* is checked on its own (SpecDecide).                                     *)
(***************************************************************************)
EXTENDS Integers, Sequences, FiniteSets, TLC

\* ----------------------------------------------------------------- bounds
MaxTicks == 1          \* the clock stops after this many ticks
MaxCycles == 3         \* cycles completed (botStats.cyclesCompleted)
MaxEvals == 3          \* evaluations that reach the alert decision
MaxRestarts == 1       \* POST /restart requests
MaxLogged == 22        \* ERROR events logged between two resets
MaxCandles == 60       \* candles handed to calculateIndicators
MaxMarkets == 2        \* markets in what loadMarkets resolves to
MaxEdgeEvals == 3      \* evaluations of the symbol in the earlier version
MaxClock == 2          \* seconds on the clock of the batched version
MaxCalls == 2          \* calls of sendTelegramAlert on its own

\* -------------------------------------------------------------- constants
MIN_TIME_BETWEEN_ALERTS == 15 * 60 * 1000
TickMs == MIN_TIME_BETWEEN_ALERTS + 1       \* one clock step
MAX_RETRIES == 3
MAX_ERRORS == 20       \* entries botStats.errors keeps
BATCH_SIZE == 2        \* batched version
RSI_OVERBOUGHT == 70
RSI_OVERSOLD == 30
NullRsi == 0 - 1                            \* rsi: null of the default state

\* The RSI values an evaluation may compute: both thresholds and a value
\* beyond each.
RSIValues == {29, 30, 70, 71}

\* The symbol lists getLeverageTokens may return (<<>>: none, or the load
\* failed).
SymbolLists == {<< >>, <<"BTC3L/USDT">>, <<"BTC3L/USDT", "ETH3S/USDT">>}
Symbols == {"BTC3L/USDT", "ETH3S/USDT"}

\* The symbol whose successive evaluations the history variable hist records.
Watched == "BTC3L/USDT"
HistLen == 3

\* Invocations of monitorTokens that can be in progress at once: the chain the
\* listen callback starts and one per restart.
Chains == 1..(MaxRestarts + 1)

\* What one attempt of sendTelegramAlert can meet: getMe fails, or getMe
\* succeeds and sendMessage is answered in one of these ways.
PostOutcomes == {"ok", "notOk", "rateLimited", "chatNotFound", "error"}
AttemptOutcomes == {"getMeFail"} \cup PostOutcomes

VARIABLES
    isMonitoringActive,  \* the global flag
    tokenStates,         \* Map symbol -> state: a function on the keys present
    botStats,            \* the counters
    now,                 \* Date.now()
    telegramConfigured,  \* telegramBotToken && telegramChatId
    boot,                \* position of the app.listen callback
    mon,                 \* per chain: the invocation of monitorTokens
    cycleTimers,         \* pending setTimeout(monitorTokens, 5 min)
    restartTimers,       \* pending restart callbacks
    exitTimer,           \* a pending process.exit
    alive,               \* the process has not exited
    restarts,            \* POST /restart requests served (history)
    evals,               \* evaluations that reached the decision (history)
    hist,                \* history: the last evaluations of Watched that decided
    errors,              \* botStats.errors
    logged,              \* ERROR events logged since the last reset (history)
    ohlcv,               \* calculateIndicators: its argument
    indicators,          \* calculateIndicators: what it returned
    fetching,            \* per symbol of a batch: its call of fetchWithRetry
    markets,             \* getLeverageTokens: what loadMarkets resolved to
    leverageTokens,      \* getLeverageTokens: what it returned
    edgeState,           \* earlier version: the map's entry for one symbol
    edgeHist,            \* earlier version: the evaluations of that symbol
    batching,            \* batched version: its loops, timers and clock
    sending              \* sendTelegramAlert on its own: one call at a time

vars == <<isMonitoringActive, tokenStates, botStats, now, telegramConfigured,
          boot, mon, cycleTimers, restartTimers, exitTimer, alive, restarts,
          evals, hist, errors, logged, ohlcv, indicators, fetching,
          markets, leverageTokens, edgeState, edgeHist, batching, sending>>

\* The state of the monitoring loop and its control surface.
monitorVars == <<isMonitoringActive, tokenStates, botStats, now,
                 telegramConfigured, boot, mon, cycleTimers, restartTimers,
                 exitTimer, alive, restarts, evals, hist>>

\* The error list: written by logEvent and POST /restart only, read by no
\* handler.
logVars == <<errors, logged>>

\* The functions checked on their own, outside the cycle.
NullCandles == 0 - 1

NoIndicators ==
    [kind |-> "none", closes |-> 0, lastClose |-> FALSE, changePercent |-> FALSE,
     ema9 |-> FALSE, ema21 |-> FALSE, rsi |-> FALSE, volumeAvg |-> FALSE]

\* A call of fetchWithRetry: the attempt it is in, the waits it has made (ms),
\* the number of candles it returned, and what became of the evaluation that
\* made the call.
IdleFetch ==
    [pc |-> "idle", attempt |-> 0, waits |-> << >>, got |-> NullCandles,
     evaluation |-> "none"]

\* getLeverageTokens has not returned.
NotListed == [done |-> FALSE, list |-> {}]

calcVars == <<ohlcv, indicators>>

marketVars == <<markets, leverageTokens>>

\* tokenStates.get(symbol) || {default} in the earlier version.
EdgeDefault == [stored |-> FALSE, sobrecompra |-> FALSE, sobrevendido |-> FALSE]

edgeVars == <<edgeState, edgeHist>>

\* The header x-ratelimit-remaining is absent.
MissingHeader == 0 - 1

\* An execution of the batched monitorTokens: i as in its for loop, the
\* evaluations of the batch not yet settled, and, as read after the last
\* batch that settled, the headers x-ratelimit-remaining and
\* x-ratelimit-reset (seconds) and the time the quota wait ends.
IdleLoop ==
    [pc |-> "idle", i |-> 0, inflight |-> {}, remaining |-> MissingHeader,
     reset |-> 0, wakeAt |-> 0]

\* The batched version at rest, before app.listen's callback.
IdleBatching ==
    [boot |-> "listen", loops |-> [l \in Chains |-> IdleLoop], timers |-> 0,
     clock |-> 0, cyclesCompleted |-> 0, restarts |-> 0]

\* sendTelegramAlert at rest: no call made yet.  In a call, retry is the loop
\* variable, getMes and posts the requests sent, checksFailed the getMe
\* requests that failed, last the reply to the latest sendMessage.
IdleSend ==
    [pc |-> "idle", configured |-> TRUE, retry |-> 0, getMes |-> 0,
     checksFailed |-> 0, posts |-> 0, last |-> "none", result |-> "none",
     calls |-> 0]

pureVars == <<calcVars, fetching, marketVars, edgeVars, batching, sending>>

\* State the monitoring handlers leave alone.
sideVars == <<logVars, pureVars>>

\* The side state at rest, but for the group named.
InitSideBut(group) ==
    /\ group = "log" \/ (errors = << >> /\ logged = 0)
    /\ group = "calc" \/ (ohlcv = NullCandles /\ indicators = NoIndicators)
    /\ group = "fetch" \/ fetching = [s \in {} |-> IdleFetch]
    /\ group = "markets" \/ (markets = {} /\ leverageTokens = NotListed)
    /\ group = "edge" \/ (edgeState = EdgeDefault /\ edgeHist = << >>)
    /\ group = "batch" \/ batching = IdleBatching
    /\ group = "send" \/ sending = IdleSend

\* The side state is left alone, but for the group named.
SideUnchangedBut(group) ==
    /\ group = "log" \/ UNCHANGED logVars
    /\ group = "calc" \/ UNCHANGED calcVars
    /\ group = "fetch" \/ UNCHANGED fetching
    /\ group = "markets" \/ UNCHANGED marketVars
    /\ group = "edge" \/ UNCHANGED edgeVars
    /\ group = "batch" \/ UNCHANGED batching
    /\ group = "send" \/ UNCHANGED sending

InitSide == InitSideBut("none")

\* ------------------------------------------------------- the per-symbol map
DefaultState ==
    [sobrecompra |-> FALSE, sobrevendido |-> FALSE, lastAlert |-> 0,
     rsi |-> NullRsi]

\* The classification a stored pair of flags stands for.
StoredClass(st) ==
    IF st.sobrecompra THEN "Overbought"
    ELSE IF st.sobrevendido THEN "Oversold"
    ELSE "Neutral"

EmptyMap == [s \in {} |-> DefaultState]

Has(m, s) == s \in DOMAIN m

\* tokenStates.get(symbol) || {default}
GetState(m, s) == IF Has(m, s) THEN m[s] ELSE DefaultState

\* Variant: set() on a map emptied first.
SetState_Alone(m, s, st) == [x \in {s} |-> st]

\* tokenStates.set(symbol, st)
SetState(m, s, st) ==
    [x \in (DOMAIN m) \cup {s} |-> IF x = s THEN st ELSE m[x]]

ZeroStats ==
    [cyclesCompleted |-> 0, totalAlertsTriggered |-> 0, totalAlertsSent |-> 0,
     failedAlerts |-> 0]

\* The name of the classification of an RSI value (the labels of line 259).
ClassOfRsi(r) ==
    IF r > RSI_OVERBOUGHT THEN "Overbought"
    ELSE IF r < RSI_OVERSOLD THEN "Oversold"
    ELSE "Neutral"

\* ------------------------------------------------- analyzeAndAlert, pure parts
\* Variant: the thresholds themselves count as extreme.
CurrentState_Inclusive(lastRsi, lastState) ==
    [sobrecompra |-> lastRsi >= RSI_OVERBOUGHT,
     sobrevendido |-> lastRsi <= RSI_OVERSOLD,
     lastAlert |-> lastState.lastAlert,
     rsi |-> lastRsi]

\* Variant: the comparison with the oversold threshold is turned round.
CurrentState_Flipped(lastRsi, lastState) ==
    [sobrecompra |-> lastRsi > RSI_OVERBOUGHT,
     sobrevendido |-> lastRsi > RSI_OVERSOLD,
     lastAlert |-> lastState.lastAlert,
     rsi |-> lastRsi]

\* Variant: overbought only from 80 on.
CurrentState_High(lastRsi, lastState) ==
    [sobrecompra |-> lastRsi > RSI_OVERBOUGHT + 10,
     sobrevendido |-> lastRsi < RSI_OVERSOLD,
     lastAlert |-> lastState.lastAlert,
     rsi |-> lastRsi]

CurrentState(lastRsi, lastState) ==
    [sobrecompra |-> lastRsi > RSI_OVERBOUGHT,
     sobrevendido |-> lastRsi < RSI_OVERSOLD,
     lastAlert |-> lastState.lastAlert,
     rsi |-> lastRsi]

\* Variant: the cooldown has elapsed once exactly 15 minutes have passed.
debemosEnviarAlerta_AtCooldown(currentState, lastState, t) ==
    LET tiempoDesdeUltimaAlerta == t - lastState.lastAlert
    IN  \/ (currentState.sobrecompra /\ ~lastState.sobrecompra)
        \/ (currentState.sobrevendido /\ ~lastState.sobrevendido)
        \/ ((currentState.sobrecompra \/ currentState.sobrevendido)
             /\ tiempoDesdeUltimaAlerta >= MIN_TIME_BETWEEN_ALERTS)

\* Variant: only the cooldown clause, without the two transitions.
debemosEnviarAlerta_CooldownOnly(currentState, lastState, t) ==
    LET tiempoDesdeUltimaAlerta == t - lastState.lastAlert
    IN  (currentState.sobrecompra \/ currentState.sobrevendido)
           /\ tiempoDesdeUltimaAlerta > MIN_TIME_BETWEEN_ALERTS

\* Variant: the cooldown test inverted and required by every clause.
debemosEnviarAlerta_Inverted(currentState, lastState, t) ==
    LET tiempoDesdeUltimaAlerta == t - lastState.lastAlert
    IN  /\ currentState.sobrecompra \/ currentState.sobrevendido
        /\ tiempoDesdeUltimaAlerta <= MIN_TIME_BETWEEN_ALERTS

debemosEnviarAlerta(currentState, lastState, t) ==
    LET tiempoDesdeUltimaAlerta == t - lastState.lastAlert
    IN  \/ (currentState.sobrecompra /\ ~lastState.sobrecompra)
        \/ (currentState.sobrevendido /\ ~lastState.sobrevendido)
        \/ ((currentState.sobrecompra \/ currentState.sobrevendido)
             /\ tiempoDesdeUltimaAlerta > MIN_TIME_BETWEEN_ALERTS)

\* The identifier telegramSent read at line 298 is declared nowhere in the
\* file: evaluating it throws a ReferenceError.
telegramSentDeclared == FALSE

\* Variant: lines 299-315 as they would run were telegramSent the result's
\* success flag.
HandleResult_Declared(symbol, currentState, lastState, success, t, m, stats) ==
    IF success
    THEN [map |-> SetState(m, symbol, [currentState EXCEPT !.lastAlert = t]),
          stats |-> [stats EXCEPT !.totalAlertsSent = @ + 1],
          ret |-> TRUE]
    ELSE [map |-> SetState(m, symbol,
                           [currentState EXCEPT !.lastAlert = lastState.lastAlert]),
          stats |-> [stats EXCEPT !.failedAlerts = @ + 1],
          ret |-> FALSE]

\* Variant: a dispatch that reported failure is not counted.
HandleResult_FailureUncounted(symbol, currentState, lastState, success, t, m, stats) ==
    [map |-> m,
     stats |-> IF success THEN [stats EXCEPT !.failedAlerts = @ + 1] ELSE stats,
     ret |-> FALSE]

\* Lines 297-327: what analyzeAndAlert does once sendTelegramAlert has
\* returned {success}.  The result is the new map, the new counters and the
\* value returned.
HandleResult(symbol, currentState, lastState, success, t, m, stats) ==
    IF ~telegramSentDeclared
    THEN \* ReferenceError at 298, caught at 316: log, failedAlerts++, return false
         [map |-> m,
          stats |-> [stats EXCEPT !.failedAlerts = @ + 1],
          ret |-> FALSE]
    ELSE IF success
    THEN [map |-> SetState(m, symbol, [currentState EXCEPT !.lastAlert = t]),
          stats |-> [stats EXCEPT !.totalAlertsSent = @ + 1],
          ret |-> TRUE]
    ELSE [map |-> SetState(m, symbol,
                           [currentState EXCEPT !.lastAlert = lastState.lastAlert]),
          stats |-> [stats EXCEPT !.failedAlerts = @ + 1],
          ret |-> FALSE]

\* ------------------------------------------------------------------- chains
\* The replies one call of sendTelegramAlert has met so far: how many loop
\* iterations they ended, whether a sendMessage was answered 429, whether one
\* was accepted, whether one was answered 'chat not found'.
NoTries ==
    [attempts |-> 0, rateLimited |-> FALSE, accepted |-> FALSE,
     chatNotFound |-> FALSE]

Met(tries, outcome) ==
    [attempts |-> tries.attempts + 1,
     rateLimited |-> tries.rateLimited \/ outcome = "rateLimited",
     accepted |-> tries.accepted \/ outcome = "ok",
     chatNotFound |-> tries.chatNotFound \/ outcome = "chatNotFound"]

Attempts(tries) == tries.attempts

\* One invocation of monitorTokens: where it is, the list it iterates, and
\* the locals of the analyzeAndAlert and sendTelegramAlert calls it awaits.
\* load is how the last getLeverageTokens of a chain that found no symbol
\* ended (history); alert is debemosEnviarAlerta, at the time it was computed, result what
\* sendTelegramAlert returned, ret what analyzeAndAlert returned, tries the
\* replies the attempts of sendTelegramAlert met (history).
IdleChain ==
    [pc |-> "idle", symbols |-> << >>, i |-> 0,
     hadState |-> FALSE, lastState |-> DefaultState,
     currentState |-> DefaultState, alert |-> FALSE, at |-> 0,
     result |-> "none", ret |-> "none", retry |-> 0, tries |-> NoTries,
     load |-> "none"]

HasIdle == \E c \in Chains : mon[c].pc = "idle"

FreeChain ==
    CHOOSE c \in Chains :
        /\ mon[c].pc = "idle"
        /\ \A d \in Chains : mon[d].pc = "idle" => c <= d

InitMonitor ==
    /\ isMonitoringActive = FALSE
    /\ tokenStates = EmptyMap
    /\ botStats = ZeroStats
    /\ now = 0
    /\ telegramConfigured \in BOOLEAN
    /\ boot = "listen"
    /\ mon = [c \in Chains |-> IdleChain]
    /\ cycleTimers = 0
    /\ restartTimers = 0
    /\ exitTimer = FALSE
    /\ alive = TRUE
    /\ restarts = 0
    /\ evals = 0
    /\ hist = << >>

Init == InitMonitor /\ InitSide

\* ------------------------------------------------------------ history records
\* An evaluation of Watched decided: its classification, its decision, how
\* its dispatch ended, and t, the time of the decision until analyzeAndAlert
\* returns and the time of that return afterwards.
PushHist(h, c, symbol, currentState, alert, result) ==
    IF symbol # Watched THEN h
    ELSE LET e == [by |-> c, cls |-> StoredClass(currentState), alert |-> alert,
                   result |-> result, t |-> now]
             a == Append(h, e)
         IN  IF Len(a) > HistLen THEN Tail(a) ELSE a

CloseHist(h, c, symbol, result) ==
    IF /\ symbol = Watched
       /\ Len(h) > 0
       /\ h[Len(h)].by = c
       /\ h[Len(h)].result = "pending"
    THEN [h EXCEPT ![Len(h)].result = result, ![Len(h)].t = now]
    ELSE h

\* ------------------------------------------------------------ sendTelegramAlert
\* Variant: a reply that is not ok ends the call with a failure.
PostVerdict_NotOkFails(outcome) ==
    CASE outcome = "ok" -> "success"
      [] outcome \in {"chatNotFound", "notOk"} -> "failure"
      [] OTHER -> "retry"

\* Variant: 'chat not found' is retried like any other error.
PostVerdict_ChatRetried(outcome) ==
    IF outcome = "ok" THEN "success" ELSE "retry"

\* Lines 181-212: what the reply to sendMessage leads to.
PostVerdict(outcome) ==
    CASE outcome = "ok" -> "success"              \* 181-184
      [] outcome = "chatNotFound" -> "failure"    \* 207-209
      [] OTHER -> "retry"                         \* 185-189, 203-206, 210-212

\* Variant: an attempt answered 429 is repeated without being counted.
NextRetry_RateLimitFree(retry, outcome) ==
    IF outcome = "rateLimited" THEN retry ELSE retry + 1

\* Variant: an attempt whose getMe failed is not counted.
NextRetry_CheckFree(retry, outcome) ==
    IF outcome = "getMeFail" THEN retry ELSE retry + 1

\* Line 151: the for loop's retry++ after an attempt that did not return.
NextRetry(retry, outcome) == retry + 1

\* ---------------------------------------------------------------- monitorTokens
\* Lines 330-339: monitorTokens() up to its first await, in the free chain.
InvokeMonitor(active) ==
    IF active
    THEN /\ HasIdle
         /\ botStats.cyclesCompleted < MaxCycles
         /\ mon' = [mon EXCEPT ![FreeChain].pc = "symbols"]
    ELSE UNCHANGED mon

\* Variant: a symbol whose evaluation failed ends the cycle, as an exception
\* thrown out of analyzeAndAlert would (lines 362-364, then the finally).
LoopTop_AbortOnFailure(c, list, i) ==
    IF /\ i <= Len(list)
       /\ isMonitoringActive
       /\ ~(i > 1 /\ (mon[c].currentState.rsi = NullRsi \/ mon[c].result = "failure"))
    THEN /\ mon' = [mon EXCEPT ![c] =
                       [IdleChain EXCEPT !.pc = "fetch", !.symbols = list, !.i = i]]
         /\ UNCHANGED <<botStats, cycleTimers>>
    ELSE /\ mon' = [mon EXCEPT ![c] = IdleChain]
         /\ botStats' = [botStats EXCEPT !.cyclesCompleted = @ + 1]
         /\ cycleTimers' = IF isMonitoringActive THEN cycleTimers + 1 ELSE cycleTimers

\* Variant: the loop does not look at the flag before a symbol.
LoopTop_NoBreak(c, list, i) ==
    IF i <= Len(list)
    THEN /\ mon' = [mon EXCEPT ![c] =
                       [IdleChain EXCEPT !.pc = "fetch", !.symbols = list, !.i = i]]
         /\ UNCHANGED <<botStats, cycleTimers>>
    ELSE /\ mon' = [mon EXCEPT ![c] = IdleChain]
         /\ botStats' = [botStats EXCEPT !.cyclesCompleted = @ + 1]
         /\ cycleTimers' = IF isMonitoringActive THEN cycleTimers + 1 ELSE cycleTimers

\* Variant: the finally block schedules nothing.
Finally_Stops(timers) == timers

\* Lines 365-371: the finally block; timers are the pending setTimeout
\* callbacks of monitorTokens.
Finally(timers) == IF isMonitoringActive THEN timers + 1 ELSE timers

\* Lines 348-371: the head of the for loop at index i of list, and the exit
\* of the loop (exhausted, or the break at 351) through 361 and the finally.
LoopTop(c, list, i) ==
    IF i <= Len(list) /\ isMonitoringActive
    THEN /\ mon' = [mon EXCEPT ![c] =
                       [IdleChain EXCEPT !.pc = "fetch", !.symbols = list, !.i = i]]
         /\ UNCHANGED <<botStats, cycleTimers>>
    ELSE /\ mon' = [mon EXCEPT ![c] = IdleChain]
         /\ botStats' = [botStats EXCEPT !.cyclesCompleted = @ + 1]
         /\ cycleTimers' = Finally(cycleTimers)

\* getLeverageTokens resolved (lines 339-346): loadMarkets threw and it
\* returned [] (lines 87-90), or it returned the list.
SymbolsDone(c) ==
    /\ alive
    /\ mon[c].pc = "symbols"
    /\ \E list \in SymbolLists, threw \in BOOLEAN :
          /\ threw => Len(list) = 0
          /\ IF Len(list) = 0
             THEN \* 341-344: return, then the finally
                  /\ mon' = [mon EXCEPT ![c] =
                                [IdleChain EXCEPT
                                    !.load = IF threw THEN "failed" ELSE "empty"]]
                  /\ cycleTimers' = Finally(cycleTimers)
                  /\ UNCHANGED botStats
             ELSE LoopTop(c, list, 1)
    /\ UNCHANGED <<sideVars, isMonitoringActive, tokenStates, now, telegramConfigured, boot,
                   restartTimers, exitTimer, alive, restarts, evals, hist>>

\* The 5 s pause after a symbol is over (line 358): next symbol or loop exit.
PauseDone(c) ==
    /\ alive
    /\ mon[c].pc = "pause"
    /\ LoopTop(c, mon[c].symbols, mon[c].i + 1)
    /\ UNCHANGED <<sideVars, isMonitoringActive, tokenStates, now, telegramConfigured, boot,
                   restartTimers, exitTimer, alive, restarts, evals, hist>>

\* An exception reaches the try block of monitorTokens when it resumes after
\* an await of its own (339, 358): the catch of 362-364, then the finally.
\* The cycle is not counted (361 is skipped).
CycleFault(c) ==
    /\ alive
    /\ mon[c].pc \in {"symbols", "pause"}
    /\ mon' = [mon EXCEPT ![c] = [IdleChain EXCEPT !.load = "fault"]]
    /\ cycleTimers' = Finally(cycleTimers)
    /\ UNCHANGED <<sideVars, isMonitoringActive, tokenStates, botStats, now,
                   telegramConfigured, boot, restartTimers, exitTimer, alive,
                   restarts, evals, hist>>

\* -------------------------------------------------------------- analyzeAndAlert
Sym(c) == mon[c].symbols[mon[c].i]

\* Variant: an evaluation without candles stores a Neutral state for its
\* symbol.
FetchFails_StoresNeutral(c) ==
    /\ alive
    /\ mon[c].pc = "fetch"
    /\ mon' = [mon EXCEPT ![c].pc = "pause", ![c].ret = "false"]
    /\ tokenStates' = SetState(tokenStates, Sym(c), DefaultState)
    /\ UNCHANGED <<sideVars, isMonitoringActive, botStats, now,
                   telegramConfigured, boot, cycleTimers, restartTimers,
                   exitTimer, alive, restarts, evals, hist>>

\* fetchOHLCVData returned null (threw, or fewer than 21 candles), or
\* calculateIndicators returned null: lines 235-239, return false.
FetchFails(c) ==
    /\ alive
    /\ mon[c].pc = "fetch"
    /\ mon' = [mon EXCEPT ![c].pc = "pause", ![c].ret = "false"]
    /\ UNCHANGED <<sideVars, isMonitoringActive, tokenStates, botStats, now,
                   telegramConfigured, boot, cycleTimers, restartTimers,
                   exitTimer, alive, restarts, evals, hist>>

\* sendTelegramAlert has returned to analyzeAndAlert (lines 297-327), which
\* returns to the loop, which starts its pause.
SendReturns(c, success, tries) ==
    LET symbol == Sym(c)
        result == IF success THEN "success" ELSE "failure"
        h == HandleResult(symbol, mon[c].currentState, mon[c].lastState,
                          success, now, tokenStates, botStats)
    IN  /\ tokenStates' = h.map
        /\ botStats' = h.stats
        /\ mon' = [mon EXCEPT ![c].pc = "pause", ![c].tries = tries,
                              ![c].result = result,
                              ![c].ret = IF h.ret THEN "true" ELSE "false"]
        /\ hist' = CloseHist(hist, c, symbol, result)

\* fetchOHLCVData and calculateIndicators gave an RSI (lines 241-296, 320-322).
Analyze(c) ==
    /\ alive
    /\ mon[c].pc = "fetch"
    /\ evals < MaxEvals
    /\ evals' = evals + 1
    /\ \E lastRsi \in RSIValues :
          LET symbol == Sym(c)
              lastState == GetState(tokenStates, symbol)
              currentState == CurrentState(lastRsi, lastState)
              alert == debemosEnviarAlerta(currentState, lastState, now)
              triggered == [botStats EXCEPT !.totalAlertsTriggered = @ + 1]
              decided == [mon[c] EXCEPT !.hadState = Has(tokenStates, symbol),
                                        !.lastState = lastState,
                                        !.currentState = currentState,
                                        !.alert = alert, !.at = now]
          IN  IF alert /\ ~(currentState.sobrecompra \/ currentState.sobrevendido)
              THEN \* 287-289: no condition to report, return false
                   /\ mon' = [mon EXCEPT ![c] =
                                 [decided EXCEPT !.pc = "pause", !.ret = "false"]]
                   /\ botStats' = triggered
                   /\ hist' = PushHist(hist, c, symbol, currentState, TRUE, "none")
                   /\ UNCHANGED tokenStates
              ELSE IF alert
              THEN IF telegramConfigured
                   THEN \* 296: first attempt under way
                        /\ mon' = [mon EXCEPT ![c] =
                                      [decided EXCEPT !.pc = "send",
                                                      !.result = "pending"]]
                        /\ botStats' = triggered
                        /\ hist' = PushHist(hist, c, symbol, currentState, TRUE,
                                            "pending")
                        /\ UNCHANGED tokenStates
                   ELSE \* 144-147: failure at once, then 297-327
                        LET h == HandleResult(symbol, currentState, lastState, FALSE,
                                              now, tokenStates, triggered)
                        IN  /\ mon' = [mon EXCEPT ![c] =
                                          [decided EXCEPT
                                              !.pc = "pause", !.result = "failure",
                                              !.ret = IF h.ret THEN "true" ELSE "false"]]
                            /\ tokenStates' = h.map
                            /\ botStats' = h.stats
                            /\ hist' = PushHist(hist, c, symbol, currentState, TRUE,
                                                "failure")
              ELSE \* 320-322
                   /\ mon' = [mon EXCEPT ![c] =
                                 [decided EXCEPT !.pc = "pause", !.ret = "false"]]
                   /\ tokenStates' = SetState(tokenStates, symbol, currentState)
                   /\ hist' = PushHist(hist, c, symbol, currentState, FALSE, "none")
                   /\ UNCHANGED botStats
    /\ UNCHANGED <<sideVars, isMonitoringActive, now, telegramConfigured, boot, cycleTimers,
                   restartTimers, exitTimer, alive, restarts>>

\* An attempt that did not return: the wait, retry++, and either the next
\* attempt or the end of the loop (lines 216-217).
NextAttempt(c, outcome) ==
    LET tries == Met(mon[c].tries, outcome)
        retry == NextRetry(mon[c].retry, outcome)
    IN  IF retry < MAX_RETRIES
        THEN /\ mon' = [mon EXCEPT ![c].pc = "send", ![c].retry = retry,
                                   ![c].tries = tries]
             /\ UNCHANGED <<tokenStates, botStats, hist>>
        ELSE SendReturns(c, FALSE, tries)

\* One attempt settled: the reply to getMe (lines 155-169) and, when that
\* succeeded, the reply to sendMessage (lines 171-213).
AttemptDone(c) ==
    /\ alive
    /\ mon[c].pc = "send"
    /\ \E outcome \in AttemptOutcomes :
          IF outcome = "getMeFail"
          THEN NextAttempt(c, outcome)
          ELSE LET verdict == PostVerdict(outcome)
               IN  IF verdict = "retry"
                   THEN NextAttempt(c, outcome)
                   ELSE SendReturns(c, verdict = "success",
                                    Met(mon[c].tries, outcome))
    /\ UNCHANGED <<sideVars, isMonitoringActive, now, telegramConfigured, boot, cycleTimers,
                   restartTimers, exitTimer, alive, restarts, evals>>

\* ------------------------------------------------------ startup, timers, control
\* testKucoinAPI resolved in the app.listen callback (lines 467-474, 482-484).
ListenApiTested ==
    /\ alive
    /\ boot = "listen"
    /\ \E apiWorks \in BOOLEAN :
          IF apiWorks /\ ~isMonitoringActive
          THEN /\ isMonitoringActive' = TRUE
               /\ boot' = "tests"           \* awaiting sendTestMessages
          ELSE /\ boot' = "done"
               /\ UNCHANGED isMonitoringActive
    /\ UNCHANGED <<sideVars, tokenStates, botStats, now, telegramConfigured, mon,
                   cycleTimers, restartTimers, exitTimer, alive, restarts,
                   evals, hist>>

\* sendTestMessages settled in the app.listen callback: monitorTokens()
\* (lines 475-481).  The test message touches no state of this model.
ListenStartsMonitor ==
    /\ alive
    /\ boot = "tests"
    /\ boot' = "done"
    /\ InvokeMonitor(isMonitoringActive)
    /\ UNCHANGED <<sideVars, isMonitoringActive, tokenStates, botStats, now,
                   telegramConfigured, cycleTimers, restartTimers, exitTimer,
                   alive, restarts, hist, evals>>

\* A setTimeout(monitorTokens, 5 min) of line 367 fires.
CycleTimerFires ==
    /\ alive
    /\ cycleTimers > 0
    /\ cycleTimers' = cycleTimers - 1
    /\ InvokeMonitor(isMonitoringActive)
    /\ UNCHANGED <<sideVars, isMonitoringActive, tokenStates, botStats, now,
                   telegramConfigured, boot, restartTimers, exitTimer, alive,
                   restarts, hist, evals>>

\* Variant: the per-symbol map survives the restart.
Restart_KeepsMap ==
    /\ alive
    /\ restarts < MaxRestarts
    /\ restarts' = restarts + 1
    /\ isMonitoringActive' = TRUE
    /\ botStats' = ZeroStats
    /\ restartTimers' = restartTimers + 1
    /\ hist' = << >>
    /\ errors' = << >>
    /\ logged' = 0
    /\ UNCHANGED <<pureVars, tokenStates, now, telegramConfigured, boot, mon, cycleTimers,
                   exitTimer, alive, evals>>

\* POST /restart (lines 438-465).
Restart ==
    /\ alive
    /\ restarts < MaxRestarts
    /\ restarts' = restarts + 1
    /\ isMonitoringActive' = TRUE
    /\ tokenStates' = EmptyMap
    /\ botStats' = ZeroStats
    /\ restartTimers' = restartTimers + 1
    /\ hist' = << >>
    /\ errors' = << >>
    /\ logged' = 0
    /\ UNCHANGED <<pureVars, now, telegramConfigured, boot, mon, cycleTimers, exitTimer,
                   alive, evals>>

\* The 5 s timer of POST /restart fires (lines 453-458): the flag is set and
\* monitorTokens() is called; sendTestMessages() touches no state of this model.
RestartTimerFires ==
    /\ alive
    /\ restartTimers > 0
    /\ restartTimers' = restartTimers - 1
    /\ isMonitoringActive' = TRUE
    /\ InvokeMonitor(TRUE)
    /\ UNCHANGED <<sideVars, tokenStates, botStats, now, telegramConfigured, boot,
                   cycleTimers, exitTimer, alive, restarts, hist, evals>>

\* SIGTERM or SIGINT (lines 487-501).
Signal ==
    /\ alive
    /\ isMonitoringActive' = FALSE
    /\ exitTimer' = TRUE
    /\ UNCHANGED <<sideVars, tokenStates, botStats, now, telegramConfigured, boot, mon,
                   cycleTimers, restartTimers, alive, restarts, evals,
                   hist>>

\* The 5 s timer of a signal handler fires: process.exit(0).
Exit ==
    /\ alive
    /\ exitTimer
    /\ alive' = FALSE
    /\ UNCHANGED <<sideVars, isMonitoringActive, tokenStates, botStats, now,
                   telegramConfigured, boot, mon, cycleTimers, restartTimers,
                   exitTimer, restarts, evals, hist>>

\* Time passes.
Tick ==
    /\ alive
    /\ now < MaxTicks * TickMs
    /\ now' = now + TickMs
    /\ UNCHANGED <<sideVars, isMonitoringActive, tokenStates, botStats, telegramConfigured,
                   boot, mon, cycleTimers, restartTimers, exitTimer, alive,
                   restarts, evals, hist>>

\* ------------------------------------------------------------------- logEvent
LogTypes == {"INFO", "WARN", "ERROR", "DEBUG"}

\* Variant: the list is trimmed as soon as it holds 20 entries.
Trimmed_Early(list) ==
    IF Len(list) >= MAX_ERRORS THEN Tail(list) ELSE list

\* Lines 71-73: shift() once the list has grown past 20 entries.
Trimmed(list) ==
    IF Len(list) > MAX_ERRORS THEN Tail(list) ELSE list

\* logEvent(type, ...) (lines 59-75), called from any handler.  An entry is
\* the time it was logged at and n, its number among the ERROR events since
\* the last reset.
LogEvent ==
    /\ alive
    /\ logged < MaxLogged
    /\ \E type \in LogTypes :
          IF type = "ERROR"
          THEN /\ errors' = Trimmed(Append(errors, [time |-> now, n |-> logged + 1]))
               /\ logged' = logged + 1
          ELSE UNCHANGED logVars
    /\ UNCHANGED <<pureVars, isMonitoringActive, tokenStates, botStats, now,
                   telegramConfigured, boot, mon, cycleTimers, restartTimers,
                   exitTimer, alive, restarts, evals, hist>>

\* One monitoring chain at work: startup, the cycles and their evaluations.
Next ==
    \/ ListenApiTested
    \/ ListenStartsMonitor
    \/ CycleTimerFires
    \/ Tick
    \/ \E c \in Chains : SymbolsDone(c)
    \/ \E c \in Chains : PauseDone(c)
    \/ \E c \in Chains : FetchFails(c)
    \/ \E c \in Chains : Analyze(c)
    \/ \E c \in Chains : AttemptDone(c)

Spec == Init /\ [][Next]_vars

\* The control surface: startup, the cycles, POST /restart and the signals,
\* with Telegram not configured (a dispatch fails at once, lines 144-147).
InitControl == Init /\ ~telegramConfigured

NextControl ==
    \/ ListenApiTested
    \/ ListenStartsMonitor
    \/ CycleTimerFires
    \/ \E c \in Chains : SymbolsDone(c)
    \/ \E c \in Chains : PauseDone(c)
    \/ \E c \in Chains : FetchFails(c)
    \/ \E c \in Chains : Analyze(c)
    \/ Restart
    \/ RestartTimerFires
    \/ Signal
    \/ Exit

SpecControl == InitControl /\ [][NextControl]_vars

\* Startup, the cycles with their dispatches, and the signals.
NextSignal ==
    \/ ListenApiTested
    \/ ListenStartsMonitor
    \/ CycleTimerFires
    \/ \E c \in Chains : SymbolsDone(c)
    \/ \E c \in Chains : PauseDone(c)
    \/ \E c \in Chains : FetchFails(c)
    \/ \E c \in Chains : Analyze(c)
    \/ \E c \in Chains : AttemptDone(c)
    \/ Signal
    \/ Exit

SpecSignal == Init /\ [][NextSignal]_vars

\* The cycles with every way they end: a full pass, an empty list, a stop by
\* signal, and an exception inside the cycle.
NextCycle ==
    \/ NextSignal
    \/ \E c \in Chains : CycleFault(c)

SpecCycle == Init /\ [][NextCycle]_vars

\* Startup, the cycles with their dispatches, and POST /restart up to the
\* 5 s before its timer fires, with Telegram configured.
InitDispatch == Init /\ telegramConfigured

NextDispatch ==
    \/ ListenApiTested
    \/ ListenStartsMonitor
    \/ CycleTimerFires
    \/ \E c \in Chains : SymbolsDone(c)
    \/ \E c \in Chains : PauseDone(c)
    \/ \E c \in Chains : FetchFails(c)
    \/ \E c \in Chains : Analyze(c)
    \/ \E c \in Chains : AttemptDone(c)
    \/ Restart

SpecDispatch == InitDispatch /\ [][NextDispatch]_vars

\* The error list on its own: every order of logEvent calls, resets by
\* POST /restart and clock ticks.
NextLog ==
    \/ LogEvent
    \/ Restart
    \/ Tick

SpecLog == Init /\ [][NextLog]_vars

\* ------------------------------------------------------- calculateIndicators
\* The number of values the indicators of the technicalindicators library
\* return for n input values (lines 119-122): a moving average of a period
\* has one value per full window, the RSI one per change after the first
\* period changes.
EMALength(period, n) == IF n >= period THEN n - period + 1 ELSE 0

SMALength(period, n) == IF n >= period THEN n - period + 1 ELSE 0

RSILength(period, n) == IF n > period THEN n - period ELSE 0

\* Lines 129-136: the snapshot built from n closes and n volumes; a field is
\* TRUE when the array element it reads exists.
Snapshot(n) ==
    [kind |-> "snapshot", closes |-> n,
     lastClose |-> n >= 1,
     changePercent |-> n >= 2,
     ema9 |-> EMALength(9, n) >= 1,
     ema21 |-> EMALength(21, n) >= 1,
     rsi |-> RSILength(14, n) >= 1,
     volumeAvg |-> SMALength(20, n) >= 1]

NullIndicators == [NoIndicators EXCEPT !.kind = "null"]

\* Variant: no check of the number of candles and of the indicator arrays.
calculateIndicators_Unchecked(candles, libraryThrows) ==
    IF candles = NullCandles \/ libraryThrows THEN NullIndicators
    ELSE Snapshot(candles)

\* Lines 110-141.  candles is the length of the argument, or NullCandles.
calculateIndicators(candles, libraryThrows) ==
    IF candles = NullCandles \/ candles < 21 THEN NullIndicators     \* 111
    ELSE LET close == candles
             volume == candles
         IN  IF close < 21 \/ volume < 20 THEN NullIndicators        \* 116
             ELSE IF libraryThrows THEN NullIndicators               \* 137-140
             ELSE IF \/ EMALength(9, close) = 0
                     \/ EMALength(21, close) = 0
                     \/ RSILength(14, close) = 0
                     \/ SMALength(20, volume) = 0
                  THEN NullIndicators                                \* 124-127
                  ELSE Snapshot(close)                               \* 129-136

\* calculateIndicators on any argument: null, or 0 to MaxCandles candles.
InitIndicators ==
    /\ InitMonitor
    /\ InitSideBut("calc")
    /\ ohlcv \in {NullCandles} \cup (0..MaxCandles)
    /\ indicators = NoIndicators

Calculate ==
    /\ indicators.kind = "none"
    /\ \E libraryThrows \in BOOLEAN :
          indicators' = calculateIndicators(ohlcv, libraryThrows)
    /\ UNCHANGED <<ohlcv, monitorVars>>
    /\ SideUnchangedBut("calc")

NextIndicators == Calculate

SpecIndicators == InitIndicators /\ [][NextIndicators]_vars

\* ------------------------------------------ fetchWithRetry (earlier version)
\* What kucoin.fetchOHLCV answers: it throws, it resolves to nothing, or it
\* resolves to this many candles.
FetchError == 0 - 2

FetchReplies == {FetchError, NullCandles, 0, 20, 21, 100}

\* Variant: 20 candles are enough.
fetchWithRetry_Accepts20(f, reply, retries) ==
    IF reply >= 20
    THEN [f EXCEPT !.pc = "returned", !.got = reply, !.evaluation = "proceeds"]
    ELSE IF f.attempt = retries
         THEN [f EXCEPT !.pc = "threw", !.evaluation = "false"]
         ELSE [f EXCEPT !.attempt = @ + 1,
                        !.waits = Append(@, 5000 * f.attempt)]

\* One turn of the loop of fetchWithRetry (src/unnamed/part_001 lines
\* 132-143) on the reply to its request: return the candles, or throw after
\* the last attempt into the catch of analyzeAndAlert (lines 212-215), which
\* returns false, or wait and request again.
fetchWithRetry(f, reply, retries) ==
    IF reply >= 21
    THEN [f EXCEPT !.pc = "returned", !.got = reply, !.evaluation = "proceeds"]
    ELSE IF f.attempt = retries
         THEN [f EXCEPT !.pc = "threw", !.evaluation = "false"]
         ELSE [f EXCEPT !.attempt = @ + 1,
                        !.waits = Append(@, 5000 * f.attempt)]

\* A batch of monitorTokens (lines 226-228): analyzeAndAlert is called for
\* each symbol of the batch and each call has sent its first request.
InitFetch ==
    /\ InitMonitor
    /\ InitSideBut("fetch")
    /\ fetching = [s \in Symbols |->
                      [IdleFetch EXCEPT !.pc = "request", !.attempt = 1,
                                        !.evaluation = "fetching"]]

\* The request of the call for symbol s is answered.
FetchReply(s) ==
    /\ fetching[s].pc = "request"
    /\ \E reply \in FetchReplies :
          fetching' = [fetching EXCEPT ![s] = fetchWithRetry(@, reply, 3)]
    /\ UNCHANGED monitorVars
    /\ SideUnchangedBut("fetch")

NextFetch == \E s \in Symbols : FetchReply(s)

SpecFetch == InitFetch /\ [][NextFetch]_vars

\* --------------------------------------------------------- getLeverageTokens
\* A market of the exchange.  Its key in the markets object is its symbol:
\* a base name, then the multiplier digits when mult > 0, then the side
\* letter if any, then "/" and the quote currency.  active and leveraged are
\* the fields of the market description.
AllMarkets ==
    [mult : {0, 3}, side : {"", "L", "S"}, quote : {"USDT", "BTC"},
     active : BOOLEAN, leveraged : BOOLEAN]

SymbolOf(m) == [mult |-> m.mult, side |-> m.side, quote |-> m.quote]

\* The objects loadMarkets can resolve to: one market per key.
MarketSets ==
    {{}} \cup
    {ms \in {{f[i] : i \in 1..MaxMarkets} : f \in [1..MaxMarkets -> AllMarkets]} :
        \A a, b \in ms : SymbolOf(a) = SymbolOf(b) => a = b}

\* Line 82: /[0-9]+[LS]\/USDT$/.test(symbol).
MatchesPattern(m) ==
    /\ m.mult > 0
    /\ m.side \in {"L", "S"}
    /\ m.quote = "USDT"

\* Lines 77-91: the keys that match the pattern, or [] when loadMarkets threw.
getLeverageTokens(ms, threw) ==
    IF threw THEN {} ELSE {m \in ms : MatchesPattern(m)}

InitMarkets ==
    /\ InitMonitor
    /\ InitSideBut("markets")
    /\ markets \in MarketSets
    /\ leverageTokens = NotListed

ListMarkets ==
    /\ ~leverageTokens.done
    /\ \E threw \in BOOLEAN :
          leverageTokens' = [done |-> TRUE, list |-> getLeverageTokens(markets, threw)]
    /\ UNCHANGED <<markets, monitorVars>>
    /\ SideUnchangedBut("markets")

NextMarkets == ListMarkets

SpecMarkets == InitMarkets /\ [][NextMarkets]_vars

\* ------------------------------ analyzeAndAlert (earlier, edge-triggered)
\* src/unnamed/part_001 lines 182-216, from the RSI on: the entry found, the
\* new state, the alert condition of lines 195-196, and the entry left
\* behind.  The entry is written at line 208, inside the alert branch, after
\* sendTelegramAlert has returned success or not; the other branch returns
\* at line 211 without writing.
analyzeAndAlertEdge(lastState, rsi, success) ==
    LET newState == [stored |-> TRUE, sobrecompra |-> rsi > 70,
                     sobrevendido |-> rsi < 30]
        alert == \/ (newState.sobrecompra /\ ~lastState.sobrecompra)
                 \/ (newState.sobrevendido /\ ~lastState.sobrevendido)
    IN  [alert |-> alert,
         sent |-> alert /\ success,
         state |-> IF alert THEN newState ELSE lastState]

InitEdge ==
    /\ InitMonitor
    /\ InitSideBut("edge")
    /\ edgeState = EdgeDefault
    /\ edgeHist = << >>

\* One evaluation of the symbol, with the RSI it obtained and what
\* sendTelegramAlert would return.
EdgeEvaluate ==
    /\ Len(edgeHist) < MaxEdgeEvals
    /\ \E rsi \in RSIValues, success \in BOOLEAN :
          LET r == analyzeAndAlertEdge(edgeState, rsi, success)
          IN  /\ edgeState' = r.state
              /\ edgeHist' = Append(edgeHist, [cls |-> ClassOfRsi(rsi),
                                               alert |-> r.alert, sent |-> r.sent])
    /\ UNCHANGED monitorVars
    /\ SideUnchangedBut("edge")

NextEdge == EdgeEvaluate

SpecEdge == InitEdge /\ [][NextEdge]_vars

\* ------------------------------------------- sendTelegramAlert, request by request
\* Lines 151-157 and 216-217: the loop test with retry at r; the next attempt
\* sends its getMe, or the call returns failure.
SendLoop(snd, r) ==
    IF r < MAX_RETRIES
    THEN [snd EXCEPT !.pc = "getMe", !.retry = r, !.getMes = @ + 1]
    ELSE [snd EXCEPT !.pc = "done", !.retry = r, !.result = "failure"]

InitSend ==
    /\ InitMonitor
    /\ InitSideBut("send")
    /\ sending = IdleSend

\* sendTelegramAlert is called (143-157): failure at once when the token or
\* the chat id is missing, the getMe of the first attempt otherwise.
SendCall ==
    /\ sending.pc \in {"idle", "done"}
    /\ sending.calls < MaxCalls
    /\ \E configured \in BOOLEAN :
          LET fresh == [IdleSend EXCEPT !.configured = configured,
                                        !.calls = sending.calls + 1]
          IN  sending' = IF configured
                         THEN SendLoop(fresh, 0)
                         ELSE [fresh EXCEPT !.pc = "done", !.result = "failure"]
    /\ UNCHANGED monitorVars
    /\ SideUnchangedBut("send")

\* The getMe request settles (156-169): sendMessage is posted (171), or the
\* 5 s wait and continue.
GetMeDone ==
    /\ sending.pc = "getMe"
    /\ \E ok \in BOOLEAN :
          sending' = IF ok
                     THEN [sending EXCEPT !.pc = "post", !.posts = @ + 1]
                     ELSE SendLoop([sending EXCEPT !.checksFailed = @ + 1],
                                   NextRetry(sending.retry, "getMeFail"))
    /\ UNCHANGED monitorVars
    /\ SideUnchangedBut("send")

\* The sendMessage request settles (171-213).
PostDone ==
    /\ sending.pc = "post"
    /\ \E outcome \in PostOutcomes :
          LET verdict == PostVerdict(outcome)
              met == [sending EXCEPT !.last = outcome]
          IN  sending' =
                  IF verdict = "retry"
                  THEN SendLoop(met, NextRetry(sending.retry, outcome))
                  ELSE [met EXCEPT !.pc = "done", !.result = verdict]
    /\ UNCHANGED monitorVars
    /\ SideUnchangedBut("send")

NextSend ==
    \/ SendCall
    \/ GetMeDone
    \/ PostDone

SpecSend == InitSend /\ [][NextSend]_vars

\* ------------------------------------------- monitorTokens (earlier, batched)
\* src/unnamed/part_001 lines 218-249, with POST /restart (265-278) and the
\* startup of 299-309.
BatchSymbols == <<"BTC3L/USDT", "ETH3S/USDT", "BTC3S/USDT">>

\* Line 227: symbols.slice(i, i + BATCH_SIZE).
BatchAt(i) ==
    {BatchSymbols[k] : k \in {j \in 1..Len(BatchSymbols) : j > i /\ j <= i + BATCH_SIZE}}

RemainingValues == {MissingHeader, 0, 4, 5}

ResetValues == 0..MaxClock

\* Variant: a remaining quota of 0 counts as absent.
HeaderOr10_ZeroAbsent(h) == IF h = MissingHeader \/ h = 0 THEN 10 ELSE h

\* Line 230: header || 10.  A header that is present is a non-empty string,
\* which is truthy also when it reads "0"; h is the number it spells.
HeaderOr10(h) == IF h = MissingHeader THEN 10 ELSE h

\* Lines 232-233: the wait in seconds, Math.max(resetTime - Date.now(), 0).
WaitTime(reset, clock) == IF reset > clock THEN reset - clock ELSE 0

\* monitorTokens() is called: up to its first await (220), in a free loop.
BatchInvoke(b) ==
    LET l == CHOOSE x \in Chains :
                 /\ b.loops[x].pc = "idle"
                 /\ \A y \in Chains : b.loops[y].pc = "idle" => x <= y
    IN  [b EXCEPT !.loops[l].pc = "init"]

BatchHasIdle == \E l \in Chains : batching.loops[l].pc = "idle"

InitBatch ==
    /\ InitMonitor
    /\ InitSideBut("batch")
    /\ batching = IdleBatching

\* Lines 299-309: the startup timer, initializeService, monitorTokens().
BatchStartup ==
    /\ batching.boot = "listen"
    /\ batching' = BatchInvoke([batching EXCEPT !.boot = "done"])
    /\ UNCHANGED monitorVars
    /\ SideUnchangedBut("batch")

\* initializeService resolved (220): the first batch is started (226-228).
BatchInitDone(l) ==
    /\ batching.loops[l].pc = "init"
    /\ batching' = [batching EXCEPT !.loops[l] =
                        [@ EXCEPT !.pc = "batch", !.i = 0, !.inflight = BatchAt(0)]]
    /\ UNCHANGED monitorVars
    /\ SideUnchangedBut("batch")

\* The evaluation of symbol s in the batch of loop l settles.  When it is the
\* last one, Promise.allSettled resolves and the loop reads the headers
\* (230-236): a quota wait when the remaining quota is below 5, the delay
\* between batches (238) at once otherwise.
BatchSettle(l, s) ==
    /\ batching.loops[l].pc = "batch"
    /\ s \in batching.loops[l].inflight
    /\ LET left == batching.loops[l].inflight \ {s}
       IN  IF left # {}
           THEN batching' = [batching EXCEPT !.loops[l].inflight = left]
           ELSE \E remaining \in RemainingValues, reset \in ResetValues :
                   batching' = [batching EXCEPT !.loops[l] =
                       [@ EXCEPT !.inflight = {},
                                 !.remaining = remaining,
                                 !.reset = reset,
                                 !.pc = IF HeaderOr10(remaining) < 5
                                        THEN "quota" ELSE "delay",
                                 !.wakeAt = IF HeaderOr10(remaining) < 5
                                            THEN batching.clock
                                                 + WaitTime(reset, batching.clock)
                                            ELSE 0]]
    /\ UNCHANGED monitorVars
    /\ SideUnchangedBut("batch")

\* The quota wait of line 235 is over.
BatchQuotaDone(l) ==
    /\ batching.loops[l].pc = "quota"
    /\ batching.clock >= batching.loops[l].wakeAt
    /\ batching' = [batching EXCEPT !.loops[l].pc = "delay"]
    /\ UNCHANGED monitorVars
    /\ SideUnchangedBut("batch")

\* The delay of line 238 is over: the next batch, or the end of the cycle
\* (241-243).
BatchDelayDone(l) ==
    /\ batching.loops[l].pc = "delay"
    /\ LET i == batching.loops[l].i + BATCH_SIZE
       IN  IF i < Len(BatchSymbols)
           THEN batching' = [batching EXCEPT !.loops[l].pc = "batch",
                                             !.loops[l].i = i,
                                             !.loops[l].inflight = BatchAt(i)]
           ELSE /\ batching.cyclesCompleted < MaxCycles
                /\ batching' = [batching EXCEPT !.loops[l] = IdleLoop,
                                                !.cyclesCompleted = @ + 1,
                                                !.timers = @ + 1]
    /\ UNCHANGED monitorVars
    /\ SideUnchangedBut("batch")

\* The timer of line 243 fires: monitorTokens().
BatchTimerFires ==
    /\ batching.timers > 0
    /\ BatchHasIdle
    /\ batching' = BatchInvoke([batching EXCEPT !.timers = @ - 1])
    /\ UNCHANGED monitorVars
    /\ SideUnchangedBut("batch")

\* POST /restart (265-278): the counters are reset and monitorTokens() is
\* called at once.  The map of the batched version is not part of this model.
BatchRestart ==
    /\ batching.restarts < MaxRestarts
    /\ BatchHasIdle
    /\ batching' = BatchInvoke([batching EXCEPT !.restarts = @ + 1,
                                                !.cyclesCompleted = 0])
    /\ UNCHANGED monitorVars
    /\ SideUnchangedBut("batch")

BatchTick ==
    /\ batching.clock < MaxClock
    /\ batching' = [batching EXCEPT !.clock = @ + 1]
    /\ UNCHANGED monitorVars
    /\ SideUnchangedBut("batch")

NextBatch ==
    \/ BatchStartup
    \/ BatchTimerFires
    \/ BatchRestart
    \/ BatchTick
    \/ \E l \in Chains : BatchInitDone(l)
    \/ \E l \in Chains : BatchQuotaDone(l)
    \/ \E l \in Chains : BatchDelayDone(l)
    \/ \E l \in Chains, s \in Symbols \cup {"BTC3S/USDT"} : BatchSettle(l, s)

SpecBatch == InitBatch /\ [][NextBatch]_vars

\* ------------------------------------------------- the decision on its own
\* One evaluation of Watched from every stored state the map can hold for it
\* (none, or flags of one classification with any time of last alert not
\* after the clock) at clock values that put the elapsed time below, on and
\* above the cooldown.
Times == {0, 1, MIN_TIME_BETWEEN_ALERTS, MIN_TIME_BETWEEN_ALERTS + 1}

StoredStates ==
    {CurrentState(r, [DefaultState EXCEPT !.lastAlert = la]) :
        r \in RSIValues, la \in Times}

\* The maps at time t: any of the symbols present, each with a stored state
\* whose lastAlert is not after t.
StoredMaps(t) ==
    UNION {[D -> {x \in StoredStates : x.lastAlert <= t}] : D \in SUBSET Symbols}

InitDecide ==
    /\ isMonitoringActive = TRUE
    /\ now \in Times
    /\ tokenStates \in StoredMaps(now)
    /\ botStats = ZeroStats
    /\ telegramConfigured \in BOOLEAN
    /\ boot = "done"
    /\ mon = [c \in Chains |->
                 IF c = 1
                 THEN [IdleChain EXCEPT !.pc = "fetch", !.symbols = <<Watched>>,
                                        !.i = 1]
                 ELSE IdleChain]
    /\ cycleTimers = 0
    /\ restartTimers = 0
    /\ exitTimer = FALSE
    /\ alive = TRUE
    /\ restarts = 0
    /\ evals = 0
    /\ hist = << >>
    /\ InitSide

NextDecide == \E c \in Chains : Analyze(c)

SpecDecide == InitDecide /\ [][NextDecide]_vars

\* ------------------------------------------------------------------ properties
\* The classification the documentation gives an RSI value.
ClassOf(r) ==
    IF r > 70 THEN "Overbought" ELSE IF r < 30 THEN "Oversold" ELSE "Neutral"

\* Chain c has computed the current state of its symbol.
Decided(c) == mon[c].currentState.rsi # NullRsi

\* sendTelegramAlert has been called by the evaluation chain c is in.
Dispatched(c) == mon[c].result # "none"

\* C1: an evaluation sets sobrecompra exactly when the RSI is strictly above
\* 70 and sobrevendido exactly when it is strictly below 30; an RSI of
\* exactly 70 or exactly 30 is neutral.
C1_Classification ==
    \A c \in Chains :
        Decided(c) =>
            LET st == mon[c].currentState
            IN  /\ st.sobrecompra <=> st.rsi > 70
                /\ st.sobrevendido <=> st.rsi < 30
                /\ st.rsi \in {30, 70} => ~st.sobrecompra /\ ~st.sobrevendido
                /\ StoredClass(st) = ClassOf(st.rsi)

C1_Witness ==
    \E c \in Chains :
        /\ Decided(c)
        /\ mon[c].currentState.rsi = 70
        /\ ~mon[c].currentState.sobrecompra
        /\ ~mon[c].currentState.sobrevendido

\* C2: the alert decision of an evaluation is true exactly when the current
\* state is Overbought and the stored one was not, or the current state is
\* Oversold and the stored one was not, or the current state is not Neutral
\* and strictly more than 15 minutes have passed since the stored lastAlert.
C2_Decision ==
    \A c \in Chains :
        Decided(c) =>
            LET cur == ClassOf(mon[c].currentState.rsi)
                old == StoredClass(mon[c].lastState)
                elapsed == mon[c].at - mon[c].lastState.lastAlert
            IN  mon[c].alert <=>
                    \/ (cur = "Overbought" /\ old # "Overbought")
                    \/ (cur = "Oversold" /\ old # "Oversold")
                    \/ (cur # "Neutral" /\ elapsed > 15 * 60 * 1000)

\* The boundary: same extreme state as stored, exactly 15 minutes after the
\* stored lastAlert, no alert.
C2_Witness ==
    \E c \in Chains :
        /\ Decided(c)
        /\ mon[c].hadState
        /\ ClassOf(mon[c].currentState.rsi) = "Overbought"
        /\ StoredClass(mon[c].lastState) = "Overbought"
        /\ mon[c].at - mon[c].lastState.lastAlert = 15 * 60 * 1000
        /\ ~mon[c].alert

\* The classes of the evaluations of Watched in the history window.
HistClasses == [i \in 1..Len(hist) |-> hist[i].cls]

\* C3: for the RSI sequence Neutral, Overbought, Overbought, Neutral over
\* consecutive evaluations inside the cooldown window, with deliveries
\* succeeding, exactly one alert is dispatched: on the second evaluation, none
\* on the third or the fourth.
C3_Sequence ==
    /\ (Len(hist) >= 2 /\ SubSeq(HistClasses, 1, 2) = <<"Neutral", "Overbought">>)
          => ~hist[1].alert /\ hist[2].alert
    /\ (/\ HistClasses = <<"Neutral", "Overbought", "Overbought">>
        /\ hist[2].result = "success"
        /\ hist[3].t - hist[2].t <= 15 * 60 * 1000)
          => ~hist[3].alert
    /\ (/\ HistClasses = <<"Overbought", "Overbought", "Neutral">>
        /\ hist[3].t - hist[1].t <= 15 * 60 * 1000)
          => ~hist[3].alert

\* The last evaluation before hist[i] whose alert was delivered.
LastSent(i) ==
    CHOOSE j \in 1..(i - 1) :
        /\ hist[j].result = "success"
        /\ \A k \in (j + 1)..(i - 1) : hist[k].result # "success"

\* C4: an evaluation whose classification equals that of the previous
\* evaluation of the symbol, less than the cooldown after the last alert sent
\* for it, dispatches no alert and leaves the stored lastAlert unchanged.
C4_Unchanged ==
    /\ \A i \in 2..Len(hist) :
          (/\ HistClasses[i] = HistClasses[i - 1]
           /\ \E j \in 1..(i - 1) : hist[j].result = "success"
           /\ hist[i].t - hist[LastSent(i)].t < 15 * 60 * 1000)
             => ~hist[i].alert
    /\ \A c \in Chains :
          (mon[c].pc = "pause" /\ Decided(c) /\ ~mon[c].alert)
             => GetState(tokenStates, Sym(c)).lastAlert = mon[c].lastState.lastAlert

\* analyzeAndAlert returns in this step of chain c.
Returns(c) == mon[c].pc \in {"fetch", "send"} /\ mon'[c].pc = "pause"

\* C5: when the dispatch succeeds the stored flags become the current
\* classification and lastAlert the time of the dispatch; an evaluation whose
\* dispatch did not succeed never advances lastAlert.
C5_Success ==
    [][\A c \in Chains :
          Returns(c) =>
              LET s == Sym(c)
              IN  IF mon'[c].result = "success"
                  THEN /\ Has(tokenStates', s)
                       /\ tokenStates'[s].sobrecompra = mon'[c].currentState.sobrecompra
                       /\ tokenStates'[s].sobrevendido = mon'[c].currentState.sobrevendido
                       /\ tokenStates'[s].lastAlert >= mon'[c].at
                       /\ tokenStates'[s].lastAlert <= now'
                  ELSE GetState(tokenStates', s).lastAlert
                          = GetState(tokenStates, s).lastAlert]_vars

\* C6: when the dispatch fails the stored lastAlert keeps its value, and the
\* next evaluation with the same extreme state attempts the alert again,
\* whatever lastAlert is (so also inside the cooldown).
C6_FailureRetries ==
    /\ \A c \in Chains :
          (mon[c].pc = "pause" /\ mon[c].result = "failure")
             => GetState(tokenStates, Sym(c)).lastAlert = mon[c].lastState.lastAlert
    /\ \A i \in 2..Len(hist) :
          (hist[i - 1].result = "failure" /\ HistClasses[i] = HistClasses[i - 1])
             => hist[i].alert

\* A failed dispatch followed, inside the cooldown counted from the stored
\* lastAlert, by an evaluation with the same extreme state that dispatches.
C6_Witness ==
    \E i \in 2..Len(hist) :
        /\ hist[i - 1].result = "failure"
        /\ HistClasses[i] = HistClasses[i - 1]
        /\ hist[i].alert
        /\ hist[i].result = "pending"
        /\ hist[i].t - GetState(tokenStates, Watched).lastAlert <= 15 * 60 * 1000

\* C7: the first evaluation of a symbol with no stored state uses a Neutral
\* previous state with lastAlert 0, and dispatches an alert in that same
\* evaluation when its RSI is extreme.
C7_FirstEvaluation ==
    \A c \in Chains :
        (Decided(c) /\ ~mon[c].hadState) =>
            /\ StoredClass(mon[c].lastState) = "Neutral"
            /\ mon[c].lastState.lastAlert = 0
            /\ ClassOf(mon[c].currentState.rsi) # "Neutral"
                  => mon[c].alert /\ Dispatched(c)

C7_Witness ==
    \E c \in Chains :
        /\ Decided(c)
        /\ ~mon[c].hadState
        /\ mon[c].currentState.rsi = 29
        /\ mon[c].alert
        /\ mon[c].pc = "send"

\* C8: while the state stays Overbought, every evaluation more than the
\* cooldown after the previous alert (deliveries succeeding) dispatches a new
\* alert, and no evaluation dispatches more than one.
C8_Sustained ==
    /\ \A i \in 2..Len(hist) :
          (/\ HistClasses[i] = "Overbought"
           /\ HistClasses[i - 1] = "Overbought"
           /\ hist[i - 1].result = "success"
           /\ hist[i].t - hist[i - 1].t > 15 * 60 * 1000)
             => hist[i].alert
    /\ botStats.totalAlertsTriggered <= evals

C8_Witness ==
    \E i \in 2..Len(hist) :
        /\ HistClasses[i] = "Overbought"
        /\ HistClasses[i - 1] = "Overbought"
        /\ hist[i - 1].result = "success"
        /\ hist[i].result = "pending"
        /\ hist[i].t - hist[i - 1].t > 15 * 60 * 1000
        /\ botStats.totalAlertsTriggered = 2

\* sendTelegramAlert has returned to the evaluation chain c is in.
Returned(c) == mon[c].pc = "pause" /\ Dispatched(c)

\* C9 as stated: sendTelegramAlert reports success whenever an attempt was
\* accepted (so also when two attempts failed and the third was accepted), and
\* reports failure only after all three attempts have failed.
C9_Original ==
    \A c \in Chains :
        Returned(c) =>
            /\ mon[c].tries.accepted => mon[c].result = "success"
            /\ mon[c].result = "failure"
                  => ~mon[c].tries.accepted /\ Attempts(mon[c].tries) = 3

\* C9: sendTelegramAlert reports success exactly when an attempt was accepted
\* (so also when two attempts failed and the third was accepted); it reports
\* failure after three failed attempts, or earlier when the bot token or the
\* chat id is missing (no attempt made) or sendMessage was answered 400
\* 'chat not found'.
C9_Amended ==
    \A c \in Chains :
        Returned(c) =>
            /\ mon[c].tries.accepted <=> mon[c].result = "success"
            /\ mon[c].result = "failure" =>
                  \/ Attempts(mon[c].tries) = 3
                  \/ ~telegramConfigured /\ Attempts(mon[c].tries) = 0
                  \/ mon[c].tries.chatNotFound

\* Two failed attempts, then the third accepted: success.
C9_Witness ==
    \E c \in Chains :
        /\ Returned(c)
        /\ Attempts(mon[c].tries) = 3
        /\ mon[c].tries.accepted
        /\ mon[c].result = "success"

\* C10: sendTelegramAlert ends after at most three attempts whatever the
\* replies: every attempt uses up one of the three, its reply either ends
\* the call with a result (success or failure) or leaves it going on with
\* fewer than three used.
C10_Terminates ==
    [][\A c \in Chains :
          (mon[c].pc = "send" /\ mon'[c] # mon[c]) =>
              LET before == Attempts(mon[c].tries)
                  after == Attempts(mon'[c].tries)
              IN  \/ /\ mon'[c].pc = "pause"
                     /\ mon'[c].result \in {"success", "failure"}
                     /\ mon'[c].ret \in {"true", "false"}
                     /\ after = before + 1
                     /\ after <= 3
                  \/ /\ mon'[c].pc = "send"
                     /\ after = before + 1
                     /\ after < 3]_vars

\* A call that ended with a failure after its third attempt.
C10_Witness ==
    \E c \in Chains :
        /\ Returned(c)
        /\ Attempts(mon[c].tries) = 3
        /\ mon[c].tries.rateLimited
        /\ mon[c].result = "failure"

\* C11: a 429 reply does not use up one of the three attempts of
\* sendTelegramAlert: a call that gives up after its attempts are exhausted
\* has met three failures other than 429, so a call that met a 429 and gave up
\* had sent more than three requests.
C11_RateLimitFree ==
    \A c \in Chains :
        (/\ Returned(c)
         /\ telegramConfigured
         /\ mon[c].result = "failure"
         /\ ~mon[c].tries.chatNotFound
         /\ mon[c].tries.rateLimited)
            => Attempts(mon[c].tries) > 3

C13_OneCycle ==
    Cardinality({c \in Chains : mon[c].pc # "idle"}) <= 1

\* C14: while the active flag is false and stays false, no chain starts the
\* evaluation of a symbol, no invocation of monitorTokens gets past the flag
\* check, no cycle timer is scheduled, and a cycle timer that fires changes
\* nothing else.
C14_Stopped ==
    [][(~isMonitoringActive /\ ~isMonitoringActive') =>
          /\ \A c \in Chains :
                /\ mon'[c].pc = "fetch" => mon[c].pc = "fetch"
                /\ mon[c].pc = "idle" => mon'[c].pc = "idle"
          /\ cycleTimers' <= cycleTimers
          /\ cycleTimers' < cycleTimers =>
                UNCHANGED <<mon, tokenStates, botStats>>]_vars

\* After a signal, with the process still running: a cycle has been completed,
\* every chain is idle and no timer is pending (the cycle ended without a
\* reschedule, or its timer fired and did nothing).
C14_Witness ==
    /\ alive
    /\ exitTimer
    /\ ~isMonitoringActive
    /\ boot = "done"
    /\ botStats.cyclesCompleted >= 1
    /\ cycleTimers = 0
    /\ \A c \in Chains : mon[c].pc = "idle"

\* The evaluation that chain c has just finished was a failure: no candles or no
\* indicators, or a dispatch that failed.
EvaluationFailed(c) ==
    /\ mon[c].pc = "pause"
    /\ ~Decided(c) \/ mon[c].result = "failure"

\* C15: an evaluation that fails returns to the loop (analyzeAndAlert returns
\* false, it does not throw), and while the flag is set the loop goes on to
\* the next symbol of the same list.
C15_Contained ==
    [][\A c \in Chains :
          /\ EvaluationFailed(c)' => mon'[c].ret = "false"
          /\ (/\ EvaluationFailed(c)
              /\ mon'[c] # mon[c]
              /\ isMonitoringActive
              /\ mon[c].i < Len(mon[c].symbols)) =>
                 /\ mon'[c].pc = "fetch"
                 /\ mon'[c].symbols = mon[c].symbols
                 /\ mon'[c].i = mon[c].i + 1]_vars

\* In the first cycle the dispatch for the first symbol has failed and the
\* second symbol is being evaluated.
C15_Witness ==
    /\ botStats.cyclesCompleted = 0
    /\ botStats.failedAlerts = 1
    /\ \E c \in Chains :
          /\ mon[c].pc = "fetch"
          /\ mon[c].i = 2
          /\ Sym(c) = "ETH3S/USDT"

\* C16: calculateIndicators returns null for fewer than 21 candles (20 among
\* them), and every snapshot it returns was computed from at least 21 closes
\* and has every field defined.
C16_Indicators ==
    indicators.kind # "none" =>
        /\ (ohlcv = NullCandles \/ ohlcv < 21) => indicators.kind = "null"
        /\ indicators.kind = "snapshot" =>
              /\ indicators.closes >= 21
              /\ indicators.closes = ohlcv
              /\ indicators.lastClose
              /\ indicators.changePercent
              /\ indicators.ema9
              /\ indicators.ema21
              /\ indicators.rsi
              /\ indicators.volumeAvg

\* Exactly 20 candles: null.
C16_Witness ==
    /\ ohlcv = 20
    /\ indicators.kind = "null"

\* C17: when loading the symbol universe has failed, the process exits instead
\* of going on without symbols.
C17_LoadFailureExits ==
    [][\A c \in Chains :
          (mon[c].pc = "symbols" /\ mon'[c].load = "failed") => ~alive']_vars

\* C18: a call of fetchWithRetry makes at most 3 attempts and has waited 5 s
\* times the attempt number after each failed one; it returns only 21 candles
\* or more; it throws only from its third attempt, the evaluation that made
\* the call then returns false without an alert, and the calls for the other
\* symbols go on unchanged.
C18_FetchRetry ==
    [][\A s \in DOMAIN fetching :
          LET f == fetching'[s]
          IN  /\ f.attempt <= 3
              /\ Len(f.waits) = f.attempt - 1
              /\ \A k \in 1..Len(f.waits) : f.waits[k] = 5000 * k
              /\ f.pc = "returned" => f.got >= 21 /\ f.evaluation = "proceeds"
              /\ f.pc = "threw" => f.attempt = 3 /\ f.evaluation = "false"
              /\ fetching'[s] # fetching[s] =>
                    \A o \in DOMAIN fetching \ {s} : fetching'[o] = fetching[o]
              /\ UNCHANGED <<tokenStates, botStats>>]_vars

\* The call for one symbol has thrown after its third attempt and the call
\* for the other symbol has returned candles afterwards, on its second attempt.
C18_Witness ==
    /\ "BTC3L/USDT" \in DOMAIN fetching
    /\ fetching["BTC3L/USDT"].pc = "threw"
    /\ fetching["BTC3L/USDT"].waits = <<5000, 10000>>
    /\ fetching["ETH3S/USDT"].pc = "returned"
    /\ fetching["ETH3S/USDT"].attempt = 2

\* C19: no entry of the per-symbol map has both flags true.
C19_OneFlag ==
    \A s \in DOMAIN tokenStates :
        ~(tokenStates[s].sobrecompra /\ tokenStates[s].sobrevendido)

\* An evaluation has stored an entry with a flag set: the symbol was and is
\* overbought and no alert was due.
C19_Witness ==
    /\ Decided(1)
    /\ mon[1].pc = "pause"
    /\ ~mon[1].alert
    /\ Has(tokenStates, Watched)
    /\ tokenStates[Watched] = mon[1].currentState
    /\ tokenStates[Watched].sobrecompra
    /\ ~tokenStates[Watched].sobrevendido

\* C20: botStats.errors never holds more than 20 entries; it holds every
\* ERROR event logged since the last reset while these are at most 20, and
\* the 20 most recent of them, oldest first, once they are more.
C20_ErrorList ==
    /\ Len(errors) <= 20
    /\ Len(errors) = IF logged > 20 THEN 20 ELSE logged
    /\ \A k \in 1..Len(errors) : errors[k].n = logged - Len(errors) + k

\* After a restart, 22 ERROR events have been logged: the list holds the
\* third to the twenty-second.
C20_Witness ==
    /\ restarts = 1
    /\ logged = 22
    /\ Len(errors) = 20
    /\ errors[1].n = 3
    /\ errors[20].n = 22

\* C21: every symbol getLeverageTokens returns belongs to a market that is
\* active, leveraged and quoted in USDT.
C21_ListedTradable ==
    \A m \in leverageTokens.list :
        /\ m.active
        /\ m.leveraged
        /\ m.quote = "USDT"

\* C22: once an evaluation that obtained an RSI is over, the map has an entry
\* for its symbol whose rsi is that RSI and whose flags are its
\* classification, whether or not an alert was due or delivered.
C22_StoredLatest ==
    \A c \in Chains :
        (mon[c].pc = "pause" /\ Decided(c)) =>
            /\ Has(tokenStates, Sym(c))
            /\ tokenStates[Sym(c)].rsi = mon[c].currentState.rsi
            /\ tokenStates[Sym(c)].sobrecompra = mon[c].currentState.sobrecompra
            /\ tokenStates[Sym(c)].sobrevendido = mon[c].currentState.sobrevendido

\* C23: an evaluation that decides not to alert stores the flags of its
\* classification for its symbol with the lastAlert the symbol had, and
\* changes neither the counters nor the entry of any other symbol.
C23_NoAlertFrame ==
    [][\A c \in Chains :
          (/\ mon[c].pc = "fetch"
           /\ mon'[c].pc = "pause"
           /\ mon'[c].currentState.rsi # NullRsi
           /\ ~mon'[c].alert) =>
              LET s == Sym(c)
                  cur == mon'[c].currentState
              IN  /\ Has(tokenStates', s)
                  /\ tokenStates'[s].sobrecompra = (cur.rsi > 70)
                  /\ tokenStates'[s].sobrevendido = (cur.rsi < 30)
                  /\ tokenStates'[s].lastAlert = GetState(tokenStates, s).lastAlert
                  /\ botStats'.totalAlertsTriggered = botStats.totalAlertsTriggered
                  /\ botStats'.totalAlertsSent = botStats.totalAlertsSent
                  /\ botStats'.failedAlerts = botStats.failedAlerts
                  /\ \A o \in Symbols \ {s} :
                        /\ Has(tokenStates', o) = Has(tokenStates, o)
                        /\ Has(tokenStates, o) => tokenStates'[o] = tokenStates[o]]_vars

\* A symbol stored as overbought with a lastAlert in the past has been
\* evaluated as neutral: no alert, its flags are cleared, its lastAlert is
\* kept, and the entry of the other symbol is still there.
C23_Witness ==
    /\ mon[1].pc = "pause"
    /\ ~mon[1].alert
    /\ mon[1].currentState.rsi = 70
    /\ mon[1].lastState.sobrecompra
    /\ Has(tokenStates, Watched)
    /\ ~tokenStates[Watched].sobrecompra
    /\ tokenStates[Watched].lastAlert = MIN_TIME_BETWEEN_ALERTS
    /\ Has(tokenStates, "ETH3S/USDT")
    /\ tokenStates["ETH3S/USDT"].sobrevendido

\* C24: in the edge-triggered version, a symbol alerted in an extreme state,
\* then evaluated as neutral, then evaluated in the same extreme state again
\* is alerted again on that third evaluation.
C24_Reentry ==
    \A i \in 3..Len(edgeHist) :
        (/\ edgeHist[i - 2].cls # "Neutral"
         /\ edgeHist[i - 2].sent
         /\ edgeHist[i - 1].cls = "Neutral"
         /\ edgeHist[i].cls = edgeHist[i - 2].cls) => edgeHist[i].alert

\* C25: an evaluation whose RSI is between 30 and 70 inclusive calls
\* sendTelegramAlert for no stored state and no elapsed time.
C25_OnlyExtremes ==
    \A c \in Chains :
        (Decided(c) /\ mon[c].currentState.rsi >= 30 /\ mon[c].currentState.rsi <= 70)
            => ~Dispatched(c)

\* RSI exactly 70 for a symbol stored as overbought whose lastAlert is more
\* than the cooldown ago: nothing is dispatched.
C25_Witness ==
    /\ mon[1].pc = "pause"
    /\ mon[1].currentState.rsi = 70
    /\ mon[1].lastState.sobrecompra
    /\ mon[1].at - mon[1].lastState.lastAlert > MIN_TIME_BETWEEN_ALERTS
    /\ mon[1].result = "none"

\* C26: no two evaluations of the same symbol are in flight at the same time.
C26_OneTaskPerSymbol ==
    \A c, d \in Chains :
        (/\ c # d
         /\ mon[c].pc \in {"fetch", "send"}
         /\ mon[d].pc \in {"fetch", "send"}) => Sym(c) # Sym(d)


\* Evaluations in flight in the batched version, over all its loops.
RECURSIVE InFlightUpTo(_)
InFlightUpTo(n) ==
    IF n = 0 THEN 0
    ELSE Cardinality(batching.loops[n].inflight) + InFlightUpTo(n - 1)

InFlight == InFlightUpTo(MaxRestarts + 1)

\* C27: in the batched monitorTokens the number of symbol evaluations in
\* flight never exceeds BATCH_SIZE, also when POST /restart invokes
\* monitorTokens.  The code does not keep this: POST /restart calls
\* monitorTokens() (part_001 line 276) while the running loop awaits its
\* batch, and the two loops have up to 2 * BATCH_SIZE evaluations in flight.
C27_BatchBound == InFlight <= BATCH_SIZE

\* C28: whenever the remaining quota read after a batch is below the
\* threshold of 5, a remaining quota of 0 included, the loop starts the next
\* batch only once the clock has reached the quota reset time.
C28_QuotaWait ==
    [][\A l \in Chains :
          (/\ batching.loops[l].pc = "delay"
           /\ batching'.loops[l].pc = "batch"
           /\ batching.loops[l].remaining # MissingHeader
           /\ batching.loops[l].remaining < 5)
          => batching'.clock >= batching.loops[l].reset]_vars

\* The second batch of a loop is running after a remaining quota of 0 and a
\* reset time ahead of the clock were read behind the first one.
C28_Witness ==
    \E l \in Chains :
        /\ batching.loops[l].pc = "batch"
        /\ batching.loops[l].i = BATCH_SIZE
        /\ batching.loops[l].remaining = 0
        /\ batching.loops[l].reset = MaxClock
        /\ batching.loops[l].wakeAt = MaxClock


\* C29: with the flag set, every cycle of monitorTokens that ends (after a
\* full pass, with an empty symbol list, or through an exception inside the
\* cycle) schedules exactly one next cycle.
C29_Rescheduled ==
    [][\A c \in Chains :
          (/\ mon[c].pc # "idle"
           /\ mon'[c].pc = "idle"
           /\ alive'
           /\ isMonitoringActive)
          => cycleTimers' = cycleTimers + 1]_vars

\* A cycle ended in the catch block with the flag set, and the next cycle is
\* pending.
C29_Witness ==
    \E c \in Chains :
        /\ mon[c].pc = "idle"
        /\ mon[c].load = "fault"
        /\ isMonitoringActive
        /\ cycleTimers = 1
        /\ botStats.cyclesCompleted = 1


\* C30: each alert whose dispatch reports failure increments failedAlerts by
\* exactly one and does not increment totalAlertsSent.
C30_FailureCounted ==
    [][\A c \in Chains :
          (/\ mon[c].pc \in {"fetch", "send"}
           /\ mon'[c].pc = "pause"
           /\ mon'[c].result = "failure")
          => /\ botStats'.failedAlerts = botStats.failedAlerts + 1
             /\ botStats'.totalAlertsSent = botStats.totalAlertsSent]_vars

\* With Telegram configured, a dispatch has used up its attempts and reported
\* failure: one failed alert, none sent.
C30_Witness ==
    \E c \in Chains :
        /\ telegramConfigured
        /\ mon[c].pc = "pause"
        /\ mon[c].result = "failure"
        /\ botStats.totalAlertsTriggered = 1
        /\ botStats.failedAlerts = 1
        /\ botStats.totalAlertsSent = 0


\* C31: cyclesCompleted is incremented by exactly one per cycle and only for
\* a cycle that made a full pass over its symbols; a cycle cut short does not
\* increment it.  The code does not keep this: the break of lines 349-352
\* leaves the loop and line 361 counts the cycle all the same.
C31_FullPassOnly ==
    [][botStats'.cyclesCompleted # botStats.cyclesCompleted
          => /\ botStats'.cyclesCompleted = botStats.cyclesCompleted + 1
             /\ \E c \in Chains :
                   /\ mon[c].pc = "pause"
                   /\ mon[c].i = Len(mon[c].symbols)
                   /\ mon'[c].pc = "idle"]_vars


\* C32: each alert whose dispatch reports success increments totalAlertsSent
\* by exactly one, leaves failedAlerts unchanged and makes analyzeAndAlert
\* return true, and analyzeAndAlert returns true in no other case.  The code
\* does not keep this: after a successful dispatch line 298 throws, the catch
\* of 316-319 counts a failed alert and analyzeAndAlert returns false.
C32_SuccessCounted ==
    [][\A c \in Chains :
          Returns(c) =>
              IF mon'[c].result = "success"
              THEN /\ botStats'.totalAlertsSent = botStats.totalAlertsSent + 1
                   /\ botStats'.failedAlerts = botStats.failedAlerts
                   /\ mon'[c].ret = "true"
              ELSE mon'[c].ret = "false"]_vars


\* C33: whenever no evaluation is between its alert decision and the end of
\* its dispatch handling, totalAlertsTriggered equals totalAlertsSent plus
\* failedAlerts, after any sequence of evaluations, delivery outcomes and
\* POST /restart requests.
C33_Balance ==
    (\A c \in Chains : mon[c].pc # "send")
        => botStats.totalAlertsTriggered
              = botStats.totalAlertsSent + botStats.failedAlerts


\* C34: the number of running monitorTokens cycles plus the number of pending
\* timers that will start a cycle never exceeds one.  The code does not keep
\* this: POST /restart registers its timer (453-458) whatever is running or
\* pending, and the cycle that timer starts runs beside the first one.
C34_OneLoopChain ==
    Cardinality({c \in Chains : mon[c].pc # "idle"}) + cycleTimers + restartTimers
        <= 1


\* C35: an evaluation that ends because the candles could not be had (fetch
\* failed, fewer than 21 candles) or calculateIndicators returned null leaves
\* the stored state of every symbol and the counters totalAlertsTriggered,
\* totalAlertsSent and failedAlerts as they were, attempts no delivery and
\* returns false.
C35_FailedEvaluationFrame ==
    [][\A c \in Chains :
          (mon[c].pc = "fetch" /\ mon'[c].pc = "pause" /\ ~Decided(c)')
          => /\ tokenStates' = tokenStates
             /\ botStats'.totalAlertsTriggered = botStats.totalAlertsTriggered
             /\ botStats'.totalAlertsSent = botStats.totalAlertsSent
             /\ botStats'.failedAlerts = botStats.failedAlerts
             /\ ~Dispatched(c)'
             /\ mon'[c].ret = "false"]_vars

\* The evaluation of the second symbol of a list ended without candles, after
\* the first symbol had been evaluated and its state stored.
C35_Witness ==
    \E c \in Chains :
        /\ mon[c].pc = "pause"
        /\ mon[c].i = 2
        /\ ~Decided(c)
        /\ mon[c].ret = "false"
        /\ Has(tokenStates, mon[c].symbols[1])
        /\ ~Has(tokenStates, Sym(c))


\* C36: every attempt of sendTelegramAlert starts with getMe; an attempt whose
\* getMe fails posts no message and uses up one of the three attempts, so a
\* call posts at most three messages, and a call whose getMe failed three
\* times has returned failure without posting.
C36_LivenessCheck ==
    /\ sending.getMes <= MAX_RETRIES
    /\ sending.posts + sending.checksFailed <= sending.getMes
    /\ sending.posts <= 3
    /\ sending.checksFailed = 3
          => /\ sending.pc = "done"
             /\ sending.result = "failure"
             /\ sending.posts = 0

\* A call whose three getMe requests failed.
C36_Witness ==
    /\ sending.pc = "done"
    /\ sending.checksFailed = 3
    /\ sending.getMes = 3
    /\ sending.posts = 0
    /\ sending.result = "failure"

\* C37: a call of sendTelegramAlert without token or chat id returns failure
\* without any request, and a sendMessage answered 400 'chat not found' ends
\* the call with failure at once, without another attempt.
C37_PermanentErrors ==
    /\ (sending.pc # "idle" /\ ~sending.configured)
          => /\ sending.pc = "done"
             /\ sending.result = "failure"
             /\ sending.getMes = 0
             /\ sending.posts = 0
    /\ sending.last = "chatNotFound"
          => /\ sending.pc = "done"
             /\ sending.result = "failure"

\* A call that ended on 'chat not found' in its first attempt, after a call
\* that found the configuration incomplete.
C37_Witness ==
    /\ sending.calls = 2
    /\ sending.pc = "done"
    /\ sending.last = "chatNotFound"
    /\ sending.getMes = 1
    /\ sending.posts = 1
    /\ sending.retry = 0

====
